---- MODULE Spec2Model ----
(***************************************************************************)
(* State-machine model of the Socket class of sockolate (src/src/index.ts). *)
(* Every method of the class is an operator from a state record to the      *)
(* state record it leaves behind, so that a method calling another method   *)
(* is the composition of the two operators.  An action is one turn of the   *)
(* JavaScript event loop: a user call, a timer callback or a transport      *)
(* event delivered to the wrapper that connect() wired to the transport.    *)
(***************************************************************************)
EXTENDS Integers, Sequences, FiniteSets, TLC

\* ------------------------------------------------------------------ bounds
\* transports that can exist at once: the current one and the replaced ones
\* whose close event has not been delivered yet
MaxWs == 2
\* last value of the clock Date.now()
MaxTime == 2
\* largest retry.amount that a configuration draws
MaxAmount == 2
\* largest buffer.max that a configuration draws
MaxBuf == 2
\* scheduled timeouts that lost their slot in #timers and can still fire
MaxOrphans == 1
\* largest value of retry.startDelay and retry.delayFactor that is drawn
MaxDelayArg == 2

\* application payloads and messages: the code stores and forwards them
\* without looking inside (an inbound message is only compared with the pong
\* literal), so two distinct values show every loss, copy and reordering
Payloads == {1, 2}
WsIds == 1..MaxWs
\* the phases that have a primary handler, and the callbacks a user registers:
\* one callback besides the constructor's noop (0) tells two wrappers apart
Phases == {"open", "close", "data", "error"}
Callbacks == {1}
\* the encoders a send() is given: the default, and one that throws on payload 2
Encoders == {"stringify", "rejecting"}
Fails(e, d) == e = "rejecting" /\ d = 2
NoHandlers == [p \in Phases |-> 0]
TimerNames == {"heartbeat", "keepAlive", "ping", "retry"}

Min2(a, b) == IF a <= b THEN a ELSE b

\* ------------------------------------------------------------------- state
VARIABLES
  opts,             \* #opts, the merged configuration, and #urlProvider
  ws,               \* #ws: 0 is undefined, otherwise the transport handle
  sock,             \* readyState of every transport that can still deliver an event
  controller,       \* #controller of the current attempt: "none", "live", "aborted"
  connected,        \* #connected (undefined counts as false)
  paused,           \* #paused
  closeCall,        \* #closeCall
  disconnectCall,   \* #disconnectCall
  retryCall,        \* #retryCall
  pingStart,        \* #pingStart
  heartBeatRunning, \* #heartBeatRunning
  retries,          \* #retries
  timers,           \* #timers: "none" (falsy), "armed", or "fired" (handle kept after expiry)
  orphans,          \* scheduled timeouts that #timers no longer refers to, by callback
  pingKind,         \* callback of the timeout in #timers.ping: "single" (ping) or "beat" (startBeat)
  retryDelay,       \* delay given to the setTimeout of the last reconnect()
  inBuffer,         \* #inBuffer
  capBuffer,        \* the array that the message wrapper captured when onData() built it
  inShared,         \* TRUE while #inBuffer still is that captured array
  outBuffer,        \* #outBuffer
  parser,           \* #parser, the encoder of the last send() that reached the transport
  upTime,           \* #upTime
  prevTimeStamp,    \* #prevTimeStamp
  now,              \* Date.now()
  task,             \* transport whose error event ran and whose close event ends the same task
  upAtOpen,         \* observer: #upTime at the last open event
  counting,         \* observer: whether this run counts its `reconnect` events
  reconnects,       \* observer: `reconnect` events emitted so far, up to retry.amount + 1
  handlers,         \* the primary callback that #openCallback, #closeCallback, #msgCallback (and #dataCallback) and #errCallback wrap: 0 is noop
  wired,            \* per transport, the callbacks behind the wrappers connect() assigned to it
  lastOp,           \* the turn that led to this state
  trace             \* what that turn emitted, wrote, delivered, closed and constructed, in order

vars == <<opts, ws, sock, controller, connected, paused, closeCall, disconnectCall,
          retryCall, pingStart, heartBeatRunning, retries, timers, orphans, pingKind,
          retryDelay, inBuffer, capBuffer, inShared, outBuffer, parser, upTime,
          prevTimeStamp, now, task, upAtOpen, counting, reconnects, handlers, wired, lastOp, trace>>

\* everything but the record of the last turn
data == <<opts, ws, sock, controller, connected, paused, closeCall, disconnectCall,
          retryCall, pingStart, heartBeatRunning, retries, timers, orphans, pingKind,
          retryDelay, inBuffer, capBuffer, inShared, outBuffer, parser, upTime,
          prevTimeStamp, now, task, upAtOpen, counting, reconnects, handlers, wired>>

\* The object at the start of a turn; exc is set while an exception propagates,
\* from is the transport whose event the turn delivers (0 in a user call or timer).
Cur ==
  [ws |-> ws, sock |-> sock, controller |-> controller, connected |-> connected,
   paused |-> paused, closeCall |-> closeCall, disconnectCall |-> disconnectCall,
   retryCall |-> retryCall, pingStart |-> pingStart,
   heartBeatRunning |-> heartBeatRunning, retries |-> retries, timers |-> timers,
   orphans |-> orphans, pingKind |-> pingKind, retryDelay |-> retryDelay,
   inBuffer |-> inBuffer, capBuffer |-> capBuffer, inShared |-> inShared,
   outBuffer |-> outBuffer, parser |-> parser, upTime |-> upTime, prevTimeStamp |-> prevTimeStamp,
   upAtOpen |-> upAtOpen, reconnects |-> reconnects, handlers |-> handlers,
   wired |-> wired, from |-> 0, trace |-> <<>>, exc |-> FALSE]

\* The object at the end of the turn becomes the next state.
Commit(s) ==
  /\ ws' = s.ws
  /\ sock' = s.sock
  /\ controller' = s.controller
  /\ connected' = s.connected
  /\ paused' = s.paused
  /\ closeCall' = s.closeCall
  /\ disconnectCall' = s.disconnectCall
  /\ retryCall' = s.retryCall
  /\ pingStart' = s.pingStart
  /\ heartBeatRunning' = s.heartBeatRunning
  /\ retries' = s.retries
  /\ timers' = s.timers
  /\ orphans' = s.orphans
  /\ pingKind' = IF s.timers["ping"] = "armed" THEN s.pingKind ELSE "single"
  /\ retryDelay' = s.retryDelay
  /\ inBuffer' = s.inBuffer
  /\ capBuffer' = s.capBuffer
  /\ inShared' = s.inShared
  /\ outBuffer' = s.outBuffer
  /\ parser' = s.parser
  /\ upTime' = s.upTime
  /\ prevTimeStamp' = s.prevTimeStamp
  /\ upAtOpen' = s.upAtOpen
  /\ reconnects' = s.reconnects
  /\ handlers' = s.handlers
  \* a transport that delivers nothing more is forgotten with its wrappers
  /\ wired' = [t \in WsIds |-> IF s.sock[t] = "none" THEN NoHandlers ELSE s.wired[t]]
  \* an exception that nothing caught leaves the turn: the trace ends with `throw`
  /\ trace' = IF s.exc THEN Append(s.trace, [k |-> "throw", e |-> "", v |-> 0])
               ELSE s.trace

\* ------------------------------------------------------- trace of one turn
Ev(k, e, v) == [k |-> k, e |-> e, v |-> v]
Log(s, k, e, v) == [s EXCEPT !.trace = Append(@, Ev(k, e, v))]
\* this.#emitter.emit(e)
emit(s, e) ==
  LET t == Log(s, "emit", e, 0)
  IN IF e = "reconnect" /\ counting
     THEN [t EXCEPT !.reconnects = Min2(@ + 1, opts.retry.amount + 1)]
     ELSE t
Count(tr, k, e) == Cardinality({i \in DOMAIN tr : tr[i].k = k /\ tr[i].e = e})
Pos(tr, k, e) == CHOOSE i \in DOMAIN tr : tr[i].k = k /\ tr[i].e = e

\* ------------------------------------------------------------- transport
\* WebSocket.close(): a connecting or open transport starts closing
wsClose(s, t) ==
  Log([s EXCEPT !.sock[t] = IF @ \in {"connecting", "open"} THEN "closing" ELSE @],
      "wsclose", "", t)
\* a transport that is closed and no longer #ws delivers nothing more: its slot is free
FreeIds(s) == {t \in WsIds : s.sock[t] = "none"}
Release(s, t) == [s EXCEPT !.sock[t] = IF @ = "closed" THEN "none" ELSE @]
readyState(s) == IF s.ws = 0 THEN "closed" ELSE s.sock[s.ws]

\* ---------------------------------------------------------------- timers
clearTimer(s, timer) == [s EXCEPT !.timers[timer] = "none"]
flushTimers(s) == [s EXCEPT !.timers = [t \in TimerNames |-> "none"]]
\* this.#timers[timer] = setTimeout(...): a timeout still armed under the name
\* is not cancelled by the assignment, it only loses its slot
setTimer(s, timer) ==
  LET cb == IF timer = "ping" THEN s.pingKind ELSE timer
      a == [s EXCEPT !.timers[timer] = "armed",
                     !.orphans = IF s.timers[timer] = "armed" /\ cb \in DOMAIN s.orphans
                                 THEN [@ EXCEPT ![cb] = @ + 1] ELSE @]
  IN Log(a, "arm", timer, 0)

\* ---------------------------------------------------------------- uptime
active(s) == s.connected /\ ~s.paused
\* timestamp() as used by the uptime getter
timestamp(s) == [s EXCEPT !.upTime = @ + (now - s.prevTimeStamp), !.prevTimeStamp = now]
\* the object after the uptime getter ran; the value read is uptime(s).upTime
uptime(s) == IF active(s) THEN timestamp(s) ELSE s

\* ------------------------------------------------------------- reconnect
\* deepMergeObj(DefaultOptions, options) always yields the six retry keys
isEmptyRetry == FALSE
\* the delay expression of reconnect(), evaluated after #retries++ (n is #retries then)
delay(n) ==
  Min2(opts.retry.startDelay * ((n + 1) * opts.retry.delayFactor), opts.retry.maxDelay)

\* shouldReconnect() without the comparison of the uptime with minUpTime
shouldReconnectNoUptime(s) ==
  ~s.disconnectCall /\ ~isEmptyRetry /\ s.retries < opts.retry.amount

Eligible3(s) == ~s.disconnectCall /\ ~isEmptyRetry /\ s.retries < opts.retry.amount
\* && short-circuits: the uptime getter only runs when the first three operands hold
shouldReconnect(s) == Eligible3(s) /\ uptime(s).upTime >= opts.retry.minUpTime
afterShouldReconnect(s) == IF Eligible3(s) THEN uptime(s) ELSE s

\* reconnect() without the test of #timers.retry
reconnectNoTimerGuard(s0) ==
  LET s == Log(s0, "call", "reconnect", 0)
  IN
  IF s.retries >= opts.retry.amount THEN s
  ELSE LET c == clearTimer(s, "retry")
           n == c.retries + 1
       IN setTimer([c EXCEPT !.retries = n, !.retryCall = TRUE, !.retryDelay = delay(n)],
                   "retry")

\* reconnect() comparing #retries > amount instead of >=
reconnectOffByOne(s0) ==
  LET s == Log(s0, "call", "reconnect", 0)
  IN
  IF s.timers.retry # "none" \/ s.retries > opts.retry.amount THEN s
  ELSE LET c == clearTimer(s, "retry")
           n == c.retries + 1
       IN setTimer([c EXCEPT !.retries = n, !.retryCall = TRUE, !.retryDelay = delay(n)],
                   "retry")

\* the trace records each call of reconnect(), also one that returns at once
reconnect(s0) ==
  LET s == Log(s0, "call", "reconnect", 0)
  IN
  IF s.timers.retry # "none" \/ s.retries >= opts.retry.amount THEN s
  ELSE LET c == clearTimer(s, "retry")
           n == c.retries + 1
       IN setTimer([c EXCEPT !.retries = n, !.retryCall = TRUE, !.retryDelay = delay(n)],
                   "retry")

\* --------------------------------------------------------------- buffers
bufferOn == opts.buffer.on

\* cleanup() that also resets the accumulated uptime on a manual disconnect
cleanupResetsUptime(s) ==
  LET f == flushTimers(s)
  IN IF f.retryCall THEN [f EXCEPT !.retryCall = FALSE]
     ELSE [f EXCEPT !.outBuffer = <<>>, !.inBuffer = <<>>, !.inShared = FALSE,
                    !.retries = 0, !.upTime = 0]

cleanup(s) ==
  LET f == flushTimers(s)
  IN IF f.retryCall THEN [f EXCEPT !.retryCall = FALSE]
     ELSE [f EXCEPT !.outBuffer = <<>>, !.inBuffer = <<>>, !.inShared = FALSE,
                    !.retries = 0]

RECURSIVE deliverAll(_, _, _)
\* the loop of syncInBuffer: emit `data` and run #dataCallback for each item
deliverAll(s, q, i) ==
  IF i > Len(q) THEN s
  ELSE deliverAll(Log(Log(emit(s, "data"), "deliver", "", q[i]),
                      "handle", "data", s.handlers["data"]), q, i + 1)

syncInBuffer(s) ==
  IF bufferOn /\ Len(s.inBuffer) > 0 /\ Len(s.inBuffer) > opts.buffer.min
  THEN [deliverAll(s, s.inBuffer, 1) EXCEPT !.inBuffer = <<>>, !.inShared = FALSE]
  ELSE s

\* WebSocket.send(): throws while connecting, transmits while open, discards otherwise
wsSend(s, d) ==
  IF s.ws = 0 \/ readyState(s) = "connecting" THEN [s EXCEPT !.exc = TRUE]
  ELSE Log(s, IF readyState(s) = "open" THEN "write" ELSE "discard", "", d)

\* this.#parser(d), evaluated before the write: the encoder can throw; the
\* trace records which encoder encoded d
encode(s, d) ==
  IF Fails(s.parser, d) THEN Log([s EXCEPT !.exc = TRUE], "fail", "", d)
  ELSE Log(s, "encode", s.parser, d)

\* this.#ws.send(this.#parser(d))
wsSendEncoded(s, d) ==
  LET c == encode(s, d)
  IN IF c.exc THEN c ELSE wsSend(c, d)

RECURSIVE writeAll(_, _, _, _)
\* the loop of syncOutBuffer: write and emit `send` for items i..max
writeAll(s, q, i, max) ==
  IF i > max \/ s.exc THEN s
  ELSE LET w == wsSendEncoded(s, q[i])
       IN IF w.exc THEN w ELSE writeAll(emit(w, "send"), q, i + 1, max)

\* syncOutBuffer() without the comparison of the length with buffer.min
syncOutBufferNoMin(s) ==
  IF s.ws = 0 THEN s
  ELSE IF bufferOn /\ Len(s.outBuffer) > 0
       THEN LET w == writeAll(s, s.outBuffer, 1, Min2(opts.buffer.max, Len(s.outBuffer)))
            IN IF w.exc THEN w ELSE [w EXCEPT !.outBuffer = <<>>]
       ELSE s

syncOutBuffer(s) ==
  IF s.ws = 0 THEN s
  ELSE IF bufferOn /\ Len(s.outBuffer) > 0 /\ Len(s.outBuffer) >= opts.buffer.min
       THEN LET w == writeAll(s, s.outBuffer, 1, Min2(opts.buffer.max, Len(s.outBuffer)))
            IN IF w.exc THEN w ELSE [w EXCEPT !.outBuffer = <<>>]
       ELSE s

sync(s) ==
  LET a == syncInBuffer(s)
      b == syncOutBuffer(a)
  IN IF b.exc THEN b ELSE [b EXCEPT !.retryCall = FALSE, !.prevTimeStamp = now]

\* --------------------------------------------------- connect / disconnect
\* disconnect() without this.#ws.close()
disconnectNoClose(s) ==
  IF s.ws = 0 THEN s
  ELSE LET a == [s EXCEPT !.disconnectCall = TRUE, !.connected = FALSE]
           b == Release(a, s.ws)
           c == [b EXCEPT !.ws = 0, !.controller = "none"]
       IN cleanup(c)

disconnect(s) ==
  IF s.ws = 0 THEN s
  ELSE LET a == [s EXCEPT !.disconnectCall = TRUE, !.connected = FALSE]
           b == Release(wsClose(a, s.ws), s.ws)
           c == [b EXCEPT !.ws = 0, !.controller = "none"]
       IN cleanup(c)

\* abort() that emits `abort` whatever the type of the reason
abortIgnoringType(s0, reasonIsError) ==
  LET s == Log(s0, "call", "abort", IF reasonIsError THEN 1 ELSE 0)
      a == IF s.controller = "live"
           THEN wsClose([s EXCEPT !.controller = "aborted"], s.ws)
           ELSE s
  IN IF opts.retry.onAbort THEN reconnect(a)
     ELSE emit(a, "abort")

\* reasonIsError: the reason passed is an Error object; the trace records the
\* call with 1 for an Error reason and 0 for a string or no reason
abort(s0, reasonIsError) ==
  LET s == Log(s0, "call", "abort", IF reasonIsError THEN 1 ELSE 0)
      a == IF s.controller = "live"
           THEN wsClose([s EXCEPT !.controller = "aborted"], s.ws)
           ELSE s
  IN IF opts.retry.onAbort THEN reconnect(a)
     ELSE emit(a, IF reasonIsError THEN "error" ELSE "abort")

\* connect() without the try/catch around the construction
connectNoCatch(s, urlOk) ==
  LET a == IF s.ws # 0 THEN disconnect(s) ELSE s
      b == emit(a, "preConnect")
  IN IF urlOk
     THEN LET t == CHOOSE x \in FreeIds(b) : \A y \in FreeIds(b) : x <= y
          IN Log([b EXCEPT !.ws = t, !.sock[t] = "connecting", !.controller = "live",
                           !.wired[t] = b.handlers,
                           !.closeCall = FALSE, !.disconnectCall = FALSE],
                 "new", "", t)
     ELSE [b EXCEPT !.exc = TRUE]

\* urlOk: provideUrl() returns and the WebSocket constructor accepts the address
connect(s, urlOk) ==
  LET a == IF s.ws # 0 THEN disconnect(s) ELSE s
      b == emit(a, "preConnect")
  IN IF urlOk
     THEN LET t == CHOOSE x \in FreeIds(b) : \A y \in FreeIds(b) : x <= y
          IN Log([b EXCEPT !.ws = t, !.sock[t] = "connecting", !.controller = "live",
                           !.wired[t] = b.handlers,
                           !.closeCall = FALSE, !.disconnectCall = FALSE],
                 "new", "", t)
     ELSE abort(b, TRUE)

\* -------------------------------------------- wrappers wired by connect()
PingContent == 0 - 1
PongContent == 0

startKATimer(s) ==
  LET c == clearTimer(s, "keepAlive")
  IN IF opts.timeout > 0 THEN setTimer(c, "keepAlive") ELSE c

\* callback(event) in a wrapper: the callback is the one the wrapper was built
\* with, which is the one connect() wired to the transport delivering the event
handle(s, p) == Log(s, "handle", p, s.wired[s.from][p])

\* #closeCallback built by onClose(callback)
closeCallback(s) ==
  IF s.closeCall THEN s
  ELSE LET a == handle(emit(clearTimer([s EXCEPT !.closeCall = TRUE], "keepAlive"),
                            "close"), "close")
           b == IF shouldReconnect(a) THEN reconnect(afterShouldReconnect(a))
                ELSE afterShouldReconnect(a)
       IN [b EXCEPT !.connected = FALSE]

\* #errCallback built by onError(callback)
errCallback(s) ==
  LET a == handle(emit(clearTimer(s, "keepAlive"), "error"), "error")
  IN IF shouldReconnect(a) THEN reconnect(afterShouldReconnect(a))
     ELSE afterShouldReconnect(a)

\* #openCallback built by onOpen(callback)
openCallback(s) ==
  sync(handle(emit(startKATimer([s EXCEPT !.connected = TRUE, !.upAtOpen = s.upTime]),
                   "open"), "open"))

\* #msgCallback built by onData(callback); it reads the array it captured
msgCallback(s, m) ==
  IF ~s.paused
  THEN LET a == emit(s, "data")
           b == IF a.pingStart \/ (a.heartBeatRunning /\ m = PongContent)
                THEN [clearTimer(emit(a, "pong"), "ping") EXCEPT !.pingStart = FALSE]
                ELSE a
       IN handle(Log(syncInBuffer(b), "deliver", "", m), "data")
  ELSE IF bufferOn /\ Len(s.capBuffer) < opts.buffer.max
       THEN Log([s EXCEPT !.capBuffer = Append(@, m),
                          !.inBuffer = IF s.inShared THEN Append(@, m) ELSE @],
                "push", "in", m)
       ELSE Log(s, "drop", "in", m)

\* ------------------------------------------------------------ user calls
\* pause() that leaves the heartbeat interval running
pauseKeepsBeat(s) == clearTimer([s EXCEPT !.paused = TRUE], "ping")

pause(s) == clearTimer(clearTimer([s EXCEPT !.paused = TRUE], "ping"), "heartbeat")

resume(s) ==
  LET a == IF s.paused THEN sync(s) ELSE s
  IN IF a.exc THEN a ELSE [a EXCEPT !.paused = FALSE]

\* send() that tests only the queue length, not whether buffering is on
sendIgnoringBufferOff(s, d, e) ==
  IF s.ws # 0 /\ readyState(s) = "open" /\ ~s.paused
  THEN LET a == syncOutBuffer([s EXCEPT !.parser = e])
           b == IF a.exc THEN a ELSE wsSendEncoded(a, d)
       IN IF b.exc THEN abort([b EXCEPT !.exc = FALSE], TRUE) ELSE emit(b, "send")
  ELSE IF Len(s.outBuffer) < opts.buffer.max
       THEN Log([s EXCEPT !.outBuffer = Append(@, d)], "push", "out", d)
       ELSE Log(s, "drop", "out", d)

\* send() that flushes the queue whatever its length
sendFlushingBelowMin(s, d, e) ==
  IF s.ws # 0 /\ readyState(s) = "open" /\ ~s.paused
  THEN LET a == syncOutBufferNoMin([s EXCEPT !.parser = e])
           b == IF a.exc THEN a ELSE wsSendEncoded(a, d)
       IN IF b.exc THEN abort([b EXCEPT !.exc = FALSE], TRUE) ELSE emit(b, "send")
  ELSE IF bufferOn /\ Len(s.outBuffer) < opts.buffer.max
       THEN Log([s EXCEPT !.outBuffer = Append(@, d)], "push", "out", d)
       ELSE Log(s, "drop", "out", d)

\* send() comparing the queue length with <= max
sendOverCapacity(s, d, e) ==
  IF s.ws # 0 /\ readyState(s) = "open" /\ ~s.paused
  THEN LET a == syncOutBuffer([s EXCEPT !.parser = e])
           b == IF a.exc THEN a ELSE wsSendEncoded(a, d)
       IN IF b.exc THEN abort([b EXCEPT !.exc = FALSE], TRUE) ELSE emit(b, "send")
  ELSE IF bufferOn /\ Len(s.outBuffer) <= opts.buffer.max
       THEN Log([s EXCEPT !.outBuffer = Append(@, d)], "push", "out", d)
       ELSE Log(s, "drop", "out", d)

\* send(data, parser); the payloads drawn are truthy; the trace records what
\* the queue did with d
send(s, d, e) ==
  IF s.ws # 0 /\ readyState(s) = "open" /\ ~s.paused
  THEN LET a == syncOutBuffer([s EXCEPT !.parser = e])
           b == IF a.exc THEN a ELSE wsSendEncoded(a, d)
       IN IF b.exc THEN abort([b EXCEPT !.exc = FALSE], TRUE) ELSE emit(b, "send")
  ELSE IF bufferOn /\ Len(s.outBuffer) < opts.buffer.max
       THEN Log([s EXCEPT !.outBuffer = Append(@, d)], "push", "out", d)
       ELSE Log(s, "drop", "out", d)

setPing(s, kind) == [setTimer(s, "ping") EXCEPT !.pingKind = kind]

ping(s) ==
  LET a == clearTimer(s, "ping")
  IN IF active(a) /\ a.ws # 0
     THEN LET b == wsSend(emit([a EXCEPT !.pingStart = TRUE], "ping"), PingContent)
          IN IF b.exc THEN b ELSE setPing(b, "single")
     ELSE a

\* sendPing of startBeat
sendPing(s) ==
  LET a == wsSend(emit(s, "ping"), PingContent)
  IN IF a.exc THEN a ELSE setPing(a, "beat")

\* startBeat() without the test of #pingStart
startBeatNoPingGuard(s) ==
  IF active(s) /\ s.ws # 0
  THEN sendPing(setTimer(clearTimer([s EXCEPT !.heartBeatRunning = TRUE], "heartbeat"),
                         "heartbeat"))
  ELSE s

startBeat(s) ==
  IF active(s) /\ s.ws # 0 /\ ~s.pingStart
  THEN sendPing(setTimer(clearTimer([s EXCEPT !.heartBeatRunning = TRUE], "heartbeat"),
                         "heartbeat"))
  ELSE s

stopBeat(s) == [clearTimer(s, "heartbeat") EXCEPT !.heartBeatRunning = FALSE]

\* -------------------------------------------------------- timer callbacks
\* a timeout that expires keeps its handle in #timers
expire(s, timer) == [s EXCEPT !.timers[timer] = "fired"]

retryCallback(s, urlOk) ==
  LET a == emit(s, "reconnect")
      b == IF a.ws = 0 \/ readyState(a) = "closed" THEN connect(a, urlOk)
           ELSE connect(disconnect(a), urlOk)
  IN [b EXCEPT !.retryCall = FALSE]

keepAliveCallback(s, urlOk) == connect(disconnect(s), urlOk)

\* the timeout callback of ping() without the strict branch
pingCallbackNeverStrict(s) == disconnect(s)

pingCallback(s) == IF opts.ping.strict THEN abort(s, FALSE) ELSE disconnect(s)

beatPingCallback(s, urlOk) == startBeat(connect(disconnect(s), urlOk))

\* ---------------------------------------------------------------- actions
\* provider "static" is a valid address, "invalid" an address that the
\* WebSocket constructor rejects, "function" a provider that can also throw
\* or return such an address
UrlOutcomes ==
  IF opts.provider = "static" THEN {TRUE}
  ELSE IF opts.provider = "invalid" THEN {FALSE}
  ELSE BOOLEAN
\* a transport can be constructed once disconnect() has released the handle
CanConstruct(s) == FreeIds(disconnect(s)) # {}
\* at most MaxOrphans timeouts that lost their slot are pending at once
Bounded(s) == s.orphans["single"] + s.orphans["beat"] + s.orphans["retry"] <= MaxOrphans

Turn(name, s, tk) ==
  /\ Bounded(s)
  /\ Commit(s)
  /\ lastOp' = name
  /\ task' = tk
  /\ UNCHANGED <<opts, now, counting>>

Connect ==
  /\ task = 0
  /\ \E ok \in UrlOutcomes :
       /\ ok => CanConstruct(Cur)
       /\ Turn("connect", connect(Cur, ok), 0)

\* the first connect() of an instance: no transport exists yet
ConnectFresh ==
  /\ task = 0
  /\ ws = 0
  /\ \E ok \in UrlOutcomes :
       /\ ok => CanConstruct(Cur)
       /\ Turn("connect", connect(Cur, ok), 0)

Disconnect == task = 0 /\ Turn("disconnect", disconnect(Cur), 0)
Reconnect == task = 0 /\ Turn("reconnect", reconnect(Cur), 0)
Abort == task = 0 /\ \E isErr \in BOOLEAN : Turn("abort", abort(Cur, isErr), 0)
Pause == task = 0 /\ Turn("pause", pause(Cur), 0)
Resume == task = 0 /\ Turn("resume", resume(Cur), 0)
\* send(data): the encoder is the default
Send == task = 0 /\ \E d \in Payloads : Turn("send", send(Cur, d, "stringify"), 0)
Ping == task = 0 /\ Turn("ping", ping(Cur), 0)
StartBeat == task = 0 /\ Turn("startBeat", startBeat(Cur), 0)
StopBeat == task = 0 /\ Turn("stopBeat", stopBeat(Cur), 0)

RetryTimeout ==
  /\ task = 0
  /\ timers.retry = "armed"
  /\ \E ok \in UrlOutcomes :
       /\ ok => CanConstruct(Cur)
       /\ Turn("retryTimeout", retryCallback(expire(Cur, "retry"), ok), 0)

KeepAliveTimeout ==
  /\ task = 0
  /\ timers.keepAlive = "armed"
  /\ \E ok \in UrlOutcomes :
       /\ ok => CanConstruct(Cur)
       /\ Turn("keepAliveTimeout", keepAliveCallback(expire(Cur, "keepAlive"), ok), 0)

PingTimeout ==
  /\ task = 0
  /\ timers.ping = "armed"
  /\ IF pingKind = "single"
     THEN Turn("pingTimeout", pingCallback(expire(Cur, "ping")), 0)
     ELSE \E ok \in UrlOutcomes :
            /\ ok => CanConstruct(Cur)
            /\ Turn("beatPingTimeout", beatPingCallback(expire(Cur, "ping"), ok), 0)

\* a ping timeout that lost its slot expires
OrphanTimeout ==
  /\ task = 0
  /\ \E k \in DOMAIN orphans :
       /\ orphans[k] > 0
       /\ LET s == [Cur EXCEPT !.orphans[k] = @ - 1]
          IN IF k = "single"
             THEN Turn("orphanPingTimeout", pingCallback(s), 0)
             ELSE \E ok \in UrlOutcomes :
                    /\ ok => CanConstruct(Cur)
                    /\ IF k = "beat"
                       THEN Turn("orphanBeatTimeout", beatPingCallback(s, ok), 0)
                       ELSE Turn("orphanRetryTimeout", retryCallback(s, ok), 0)

\* the heartbeat interval ticks and stays armed
HeartbeatTick ==
  /\ task = 0
  /\ timers.heartbeat = "armed"
  /\ Turn("heartbeatTick", sendPing(Cur), 0)

WsOpen ==
  /\ task = 0
  /\ \E t \in WsIds :
       /\ sock[t] = "connecting"
       /\ Turn("wsOpen", openCallback([Cur EXCEPT !.sock[t] = "open", !.from = t]), 0)

WsMessage ==
  /\ task = 0
  /\ \E t \in WsIds, m \in Payloads :
       /\ sock[t] = "open"
       /\ Turn("wsMessage", msgCallback([Cur EXCEPT !.from = t], m), 0)

\* the peer answers a ping with the pong literal
WsPong ==
  /\ task = 0
  /\ \E t \in WsIds :
       /\ sock[t] = "open"
       /\ Turn("wsPong", msgCallback([Cur EXCEPT !.from = t], PongContent), 0)

\* a failure: the transport is closed, its error event runs now and its close
\* event runs next in the same task
WsError ==
  /\ task = 0
  /\ \E t \in WsIds :
       /\ sock[t] \in {"connecting", "open", "closing"}
       /\ Turn(IF t = ws THEN "wsError" ELSE "staleError",
               errCallback([Cur EXCEPT !.sock[t] = "closed", !.from = t]), t)

\* the close event of a transport: after its error event, or alone when the
\* closing handshake completes
WsClose ==
  \E t \in WsIds :
    /\ \/ task = t
       \/ task = 0 /\ sock[t] \in {"open", "closing"}
    /\ Turn(IF t = ws THEN "wsClose" ELSE "staleClose",
            closeCallback([Cur EXCEPT !.sock[t] = IF t = ws THEN "closed" ELSE "none",
                                      !.from = t]), 0)

Tick ==
  /\ task = 0
  /\ now < MaxTime
  /\ now' = now + 1
  /\ lastOp' = "tick"
  /\ trace' = <<>>
  /\ UNCHANGED <<opts, ws, sock, controller, connected, paused, closeCall, disconnectCall,
                 retryCall, pingStart, heartBeatRunning, retries, timers, orphans,
                 pingKind, retryDelay, inBuffer, capBuffer, inShared, outBuffer, parser,
                 upTime, prevTimeStamp, task, upAtOpen, counting, reconnects, handlers, wired>>

\* ------------------------------------------------------------------- Init
\* the state the constructor leaves (immediate: false) for a configuration c
InitWith(c, cnt) ==
  /\ opts = c
  /\ counting = cnt
  /\ upAtOpen = 0
  /\ ws = 0
  /\ sock = [t \in WsIds |-> "none"]
  /\ controller = "none"
  /\ connected = FALSE
  /\ paused = FALSE
  /\ closeCall = FALSE
  /\ disconnectCall = FALSE
  /\ retryCall = FALSE
  /\ pingStart = FALSE
  /\ heartBeatRunning = FALSE
  /\ retries = 0
  /\ timers = [t \in TimerNames |-> "none"]
  /\ orphans = [k \in {"single", "beat", "retry"} |-> 0]
  /\ pingKind = "single"
  /\ retryDelay = 0
  /\ inBuffer = <<>>
  /\ capBuffer = <<>>
  /\ inShared = TRUE
  /\ outBuffer = <<>>
  /\ parser = "stringify"
  /\ upTime = 0
  /\ prevTimeStamp = 0
  /\ now = 0
  /\ task = 0
  /\ reconnects = 0
  /\ handlers = NoHandlers
  /\ wired = [t \in WsIds |-> NoHandlers]
  /\ lastOp = "new"
  /\ trace = <<>>

\* configurations: deepMergeObj(DefaultOptions, options) for the options drawn
RetryOpts(amount, minUpTime, onAbort, startDelay, delayFactor, maxDelay) ==
  [amount |-> amount, minUpTime |-> minUpTime, onAbort |-> onAbort,
   startDelay |-> startDelay, delayFactor |-> delayFactor, maxDelay |-> maxDelay]
\* buffer: false is on = FALSE
BufferOpts(on, max, min) == [on |-> on, max |-> max, min |-> min]
Config(retry, buffer, strict, timeout, provider) ==
  [retry |-> retry, buffer |-> buffer, ping |-> [strict |-> strict],
   timeout |-> timeout, provider |-> provider]

\* reconnection mechanics: retry.amount and retry.onAbort vary
RetryConfigs ==
  {Config(RetryOpts(a, 0, ab, 1, 1, 1), BufferOpts(TRUE, 1, 0), TRUE, 0, "static") :
     a \in 0..MaxAmount, ab \in BOOLEAN}

InitRetry == \E c \in RetryConfigs : InitWith(c, FALSE)

NextRetry ==
  \/ Connect \/ Disconnect \/ Reconnect \/ Abort \/ Pause \/ Resume
  \/ RetryTimeout \/ WsOpen \/ WsError \/ WsClose

SpecRetry == InitRetry /\ [][NextRetry]_vars

\* reconnection cycles with traffic: send() and messages fill the buffers
CycleConfigs ==
  {Config(RetryOpts(a, 0, FALSE, 1, 1, 1), BufferOpts(TRUE, 1, 0), TRUE, 0, "static") :
     a \in 1..MaxAmount}

InitCycle == \E c \in CycleConfigs : InitWith(c, FALSE)

NextCycle ==
  \/ Connect \/ Disconnect \/ Reconnect \/ Pause \/ Resume \/ Send
  \/ RetryTimeout \/ WsOpen \/ WsMessage \/ WsError \/ WsClose

SpecCycle == InitCycle /\ [][NextCycle]_vars

\* automatic reconnection only: the user never calls disconnect(), and connect()
\* only while no transport exists; no keep-alive, ping or heartbeat timer
AutoConfigs ==
  {Config(RetryOpts(a, 0, ab, 1, 1, 1), BufferOpts(TRUE, 1, 0), TRUE, 0, "static") :
     a \in 1..MaxAmount, ab \in BOOLEAN}

InitAuto == \E c \in AutoConfigs : InitWith(c, TRUE)

NextAuto ==
  \/ ConnectFresh \/ Reconnect \/ Abort \/ Pause \/ Resume \/ Send
  \/ RetryTimeout \/ WsOpen \/ WsError \/ WsClose

SpecAuto == InitAuto /\ [][NextAuto]_vars

\* eligibility with a clock: retry.minUpTime varies and time passes
UptimeConfigs ==
  {Config(RetryOpts(MaxAmount, u, FALSE, 1, 1, 1), BufferOpts(TRUE, 1, 0), TRUE, 0, "static") :
     u \in 0..1}

InitUptime == \E c \in UptimeConfigs : InitWith(c, FALSE)

NextUptime ==
  \/ Connect \/ Disconnect \/ Pause \/ Resume
  \/ RetryTimeout \/ WsOpen \/ WsError \/ WsClose \/ Tick

SpecUptime == InitUptime /\ [][NextUptime]_vars

\* backoff: the delay options vary
DelayConfigs ==
  {Config(RetryOpts(MaxAmount, 0, FALSE, sd, df, md), BufferOpts(TRUE, 1, 0), TRUE, 0, "static") :
     sd \in 1..MaxDelayArg, df \in 1..MaxDelayArg,
     md \in {1, MaxDelayArg * MaxDelayArg * (MaxAmount + 1)}}

InitDelay == \E c \in DelayConfigs : InitWith(c, FALSE)

NextDelay ==
  \/ Connect \/ Disconnect \/ Reconnect
  \/ RetryTimeout \/ WsOpen \/ WsError \/ WsClose

SpecDelay == InitDelay /\ [][NextDelay]_vars

\* every timer: keep-alive on, a strict ping and the heartbeat, with
\* retry.onAbort, so that each timeout can end in a new transport
TimerConfigs ==
  {Config(RetryOpts(1, 0, TRUE, 1, 1, 1), BufferOpts(TRUE, 1, 0), TRUE, 1, "static")}

InitTimers == \E c \in TimerConfigs : InitWith(c, FALSE)

NextTimers ==
  \/ Connect \/ Disconnect \/ Reconnect \/ Abort \/ Ping \/ StartBeat \/ StopBeat
  \/ RetryTimeout \/ KeepAliveTimeout \/ PingTimeout \/ OrphanTimeout \/ HeartbeatTick
  \/ WsOpen \/ WsPong \/ WsError \/ WsClose

SpecTimers == InitTimers /\ [][NextTimers]_vars

\* buffering: buffer.max and buffer.min vary, no reconnection
BufferConfigs ==
  {Config(RetryOpts(0, 0, FALSE, 1, 1, 1), BufferOpts(TRUE, mx, mn), TRUE, 0, "static") :
     mx \in 1..MaxBuf, mn \in 0..1}

InitBuffer == \E c \in BufferConfigs : InitWith(c, FALSE)

NextBuffer ==
  \/ Connect \/ Disconnect \/ Pause \/ Resume \/ Send
  \/ WsOpen \/ WsMessage \/ WsClose

SpecBuffer == InitBuffer /\ [][NextBuffer]_vars

\* ================================================================ claims
Emitted(tr, e) == Count(tr, "emit", e)
Called(tr, f) == Count(tr, "call", f)
Armed(tr, timer) == Count(tr, "arm", timer)

\* C1: the disconnect that the retry timer performs (directly or through
\* connect()) leaves the retry counter and both buffers unchanged, whatever
\* happened between reconnect() and the expiry of the timer.
C1_CyclePreservesState ==
  [][lastOp' = "retryTimeout" =>
       /\ retries' = retries
       /\ outBuffer' = outBuffer
       /\ inBuffer' = inBuffer]_vars

\* C2: at most one retry timeout is scheduled; a reconnect() that takes effect
\* increments the retry count by one and arms one timer, and every reconnect()
\* called while that timer is pending changes nothing.
C2_SingleRetryTimer ==
  /\ [](orphans["retry"] = 0)
  /\ [][lastOp' = "reconnect" =>
          IF timers.retry = "armed"
          THEN UNCHANGED data /\ Armed(trace', "retry") = 0
          ELSE (timers.retry = "none" /\ retries < opts.retry.amount) =>
                 /\ retries' = retries + 1
                 /\ timers'.retry = "armed"
                 /\ Armed(trace', "retry") = 1]_vars

\* a reconnect() that found the timer pending and did nothing
C2_Witness ==
  /\ lastOp = "reconnect"
  /\ timers.retry = "armed"
  /\ Armed(trace, "retry") = 0
  /\ retries = 1

\* C3: the retry count stays within 0..retry.amount; reconnect() at the limit
\* changes nothing; with retry.amount = 0 no timer is armed and no `reconnect`
\* event is emitted.
C3_RetriesBounded ==
  /\ [](retries \in 0..opts.retry.amount)
  /\ [](opts.retry.amount = 0 =>
          timers.retry = "none" /\ Emitted(trace, "reconnect") = 0)
  /\ [][(lastOp' = "reconnect" /\ retries = opts.retry.amount) =>
          UNCHANGED data /\ Armed(trace', "retry") = 0]_vars

\* a reconnect() called with the retry count at a limit of at least one
C3_Witness ==
  /\ lastOp = "reconnect"
  /\ opts.retry.amount >= 1
  /\ retries = opts.retry.amount
  /\ timers.retry = "none"

\* C4: with no disconnect() by the user and no keep-alive, ping or heartbeat
\* expiry, the number of `reconnect` events never exceeds retry.amount.
C4_ReconnectsWithinAmount == reconnects <= opts.retry.amount

\* what the uptime getter returns in the current state
UptimeNow == IF connected /\ ~paused THEN upTime + (now - prevTimeStamp) ELSE upTime
\* the reconnection policy's eligibility, on the uptime u
EligibleOn(u) ==
  /\ ~disconnectCall
  /\ retries < opts.retry.amount
  /\ u >= opts.retry.minUpTime

\* C5: a failed connection attempt (error event, then close event) with an
\* eligible policy is followed by one `reconnect` event after the backoff
\* delay: the failure leaves a retry timer pending.
C5_FailureArmsRetry ==
  [][(lastOp' = "wsError" /\ sock[ws] = "connecting" /\ EligibleOn(UptimeNow)) =>
       timers'.retry = "armed"]_vars

\* the turn delivers an error event, or a close event that the wrapper does
\* not discard as a repetition
FailureEvent ==
  \/ lastOp' \in {"wsError", "staleError"}
  \/ lastOp' \in {"wsClose", "staleClose"} /\ ~closeCall

C7_BackoffDelay ==
  timers.retry = "armed" =>
    retryDelay = Min2(opts.retry.startDelay * (retries * opts.retry.delayFactor),
                      opts.retry.maxDelay)

\* C8: a close or error event of a replaced transport arms no retry timer,
\* leaves the retry count and the connected and active status alone, and
\* delivers nothing to the data handler.
C8_StaleEventsInert ==
  [][lastOp' \in {"staleClose", "staleError"} =>
       /\ timers'.retry = timers.retry
       /\ retries' = retries
       /\ connected' = connected
       /\ Count(trace', "deliver", "") = 0]_vars

Live == {t \in WsIds : sock[t] \in {"connecting", "open"}}

\* C9: at most one transport is connecting or open, and it is the handle
\* #ws; a turn that constructs a transport while one exists has closed that
\* one before.
C9_OneLiveTransport ==
  /\ [](Cardinality(Live) <= 1 /\ \A t \in Live : t = ws)
  /\ [][\A j \in DOMAIN trace' :
          (trace'[j].k = "new" /\ ws # 0) =>
            \E i \in 1..(j - 1) : trace'[i].k = "wsclose" /\ trace'[i].v = ws]_vars

\* connect() replaced an open transport: the old one is closing, the new one
\* is connecting
C9_Witness ==
  /\ lastOp = "connect"
  /\ ws # 0
  /\ sock[ws] = "connecting"
  /\ \E t \in WsIds : t # ws /\ sock[t] = "closing"
  /\ Count(trace, "wsclose", "") = 1

\* C10: neither queue ever holds more than buffer.max items; an item offered
\* to a full queue is dropped and the queue is unchanged, and an item accepted
\* goes to the end of the queue.
C10_QueuesBounded ==
  /\ [](Len(outBuffer) <= opts.buffer.max /\ Len(inBuffer) <= opts.buffer.max)
  /\ [][lastOp' = "send" =>
          /\ Count(trace', "drop", "out") = 1 =>
               (outBuffer' = outBuffer /\ Len(outBuffer) = opts.buffer.max)
          /\ Count(trace', "push", "out") = 1 =>
               (Len(outBuffer) < opts.buffer.max
                /\ \E d \in Payloads : outBuffer' = Append(outBuffer, d))]_vars
  /\ [][lastOp' = "wsMessage" =>
          /\ Count(trace', "drop", "in") = 1 => inBuffer' = inBuffer
          /\ Count(trace', "push", "in") = 1 =>
               \/ inBuffer' = inBuffer
               \/ \E m \in Payloads : inBuffer' = Append(inBuffer, m)
          /\ Len(inBuffer) = opts.buffer.max => inBuffer' = inBuffer]_vars

\* a payload offered to a full outbound queue of two different payloads
C10_Witness ==
  /\ lastOp = "send"
  /\ Count(trace, "drop", "out") = 1
  /\ Len(outBuffer) = 2
  /\ outBuffer[1] # outBuffer[2]
  /\ trace[1].v # outBuffer[2]

\* the payloads that the turn handed to an open transport, in order
Written(tr) ==
  LET w == SelectSeq(tr, LAMBDA x : x.k = "write")
  IN [i \in DOMAIN w |-> w[i].v]
\* the transport is absent or not open, or the socket is paused
NotSendable == ws = 0 \/ sock[ws] # "open" \/ paused

\* C11: send() while the transport is absent, not open or paused queues the
\* payload and writes nothing; with buffer.min = 0 the next open event, or the
\* next resume() of a paused socket that has a transport, writes exactly the
\* queued payloads in enqueue order, each once, and leaves the queue empty.
C11_QueuedThenFlushed ==
  /\ [][(lastOp' = "send" /\ NotSendable) =>
          /\ Written(trace') = <<>>
          /\ \/ Len(outBuffer) = opts.buffer.max /\ outBuffer' = outBuffer
             \/ Len(outBuffer) < opts.buffer.max
                /\ \E d \in Payloads : outBuffer' = Append(outBuffer, d)]_vars
  /\ [][(/\ opts.buffer.min = 0
         /\ outBuffer # <<>>
         /\ \/ lastOp' = "wsOpen"
            \/ lastOp' = "resume" /\ paused /\ ws # 0) =>
          /\ Written(trace') = outBuffer
          /\ outBuffer' = <<>>]_vars

\* thresholds: buffer.min varies up to buffer.max, no reconnection
ThresholdConfigs ==
  {Config(RetryOpts(0, 0, FALSE, 1, 1, 1), BufferOpts(TRUE, MaxBuf, mn), TRUE, 0, "static") :
     mn \in 1..MaxBuf}

InitThreshold == \E c \in ThresholdConfigs : InitWith(c, FALSE)

NextThreshold ==
  \/ Connect \/ Disconnect \/ Pause \/ Resume \/ Send
  \/ WsOpen \/ WsMessage \/ WsClose

SpecThreshold == InitThreshold /\ [][NextThreshold]_vars

\* the messages that the turn handed to the data handler, in order
Delivered(tr) ==
  LET w == SelectSeq(tr, LAMBDA x : x.k = "deliver")
  IN [i \in DOMAIN w |-> w[i].v]
\* the turn runs a flush: resume() of a paused socket, an open event, a send()
\* that goes to the transport, or a message that arrives while not paused
DirectSend == lastOp' = "send" /\ ~NotSendable
DirectMessage == lastOp' = "wsMessage" /\ ~paused
FlushTurn ==
  \/ lastOp' = "resume" /\ paused
  \/ lastOp' = "wsOpen"
  \/ DirectSend
  \/ DirectMessage

\* C12: a flush below the threshold (outbound length < buffer.min, inbound
\* length <= buffer.min) leaves the queue unchanged and writes or delivers
\* none of its items, only the payload or message of the turn itself; an open
\* event with the outbound queue at or above buffer.min writes the queue, and
\* a flush with the inbound queue above buffer.min delivers it.
C12_FlushAboveThreshold ==
  /\ [][(FlushTurn /\ Len(outBuffer) < opts.buffer.min) =>
          /\ outBuffer' = outBuffer
          /\ Len(Written(trace')) = IF DirectSend THEN 1 ELSE 0]_vars
  /\ [][(FlushTurn /\ Len(inBuffer) <= opts.buffer.min) =>
          /\ inBuffer' = inBuffer
          /\ Len(Delivered(trace')) = IF DirectMessage THEN 1 ELSE 0]_vars
  /\ [][(lastOp' = "wsOpen" /\ outBuffer # <<>> /\ Len(outBuffer) >= opts.buffer.min) =>
          Written(trace') = outBuffer /\ outBuffer' = <<>>]_vars
  /\ [][((lastOp' \in {"resume", "wsOpen"} \/ DirectMessage) /\ FlushTurn
          /\ Len(inBuffer) > opts.buffer.min) =>
          /\ inBuffer' = <<>>
          /\ SubSeq(Delivered(trace'), 1, Len(inBuffer)) = inBuffer]_vars

\* resume() on an open transport with one item in each queue and a threshold
\* of at least two: both queues stay
C12_Witness ==
  /\ lastOp = "resume"
  /\ ~paused
  /\ ws # 0 /\ sock[ws] = "open"
  /\ opts.buffer.min >= 2
  /\ Len(outBuffer) = 1
  /\ Len(inBuffer) = 1
  /\ trace = <<>>

\* C13: a turn that starts and ends with the paused flag set delivers no
\* message (no `data` event, no data handler call) and writes no payload to
\* the transport.
C13_PausedIsSilent ==
  [][(paused /\ paused') =>
       /\ Written(trace') = <<>>
       /\ Delivered(trace') = <<>>
       /\ Emitted(trace', "data") = 0]_vars

\* abort(reason, payload): the method declares the reason only, so the second
\* argument of the call is not read
AbortPayload ==
  /\ task = 0
  /\ \E isErr \in BOOLEAN, p \in Payloads : Turn("abortPayload", abort(Cur, isErr), 0)

\* abort(): retry.onAbort varies, the retry limit is the largest drawn
AbortConfigs ==
  {Config(RetryOpts(MaxAmount, 0, ab, 1, 1, 1), BufferOpts(TRUE, 1, 0), TRUE, 0, "static") :
     ab \in BOOLEAN}

InitAbort == \E c \in AbortConfigs : InitWith(c, FALSE)

NextAbort ==
  \/ Connect \/ Disconnect \/ Abort \/ AbortPayload \/ Pause \/ Resume
  \/ RetryTimeout \/ WsOpen \/ WsError \/ WsClose

SpecAbort == InitAbort /\ [][NextAbort]_vars

AbortTurn == lastOp' \in {"abort", "abortPayload"}

\* C14: abort() while paused, or with no transport (before the first
\* connect() or after a disconnect()), emits neither `abort` nor `error` and
\* changes nothing.
C14_AbortNoOp ==
  [][(AbortTurn /\ (paused \/ ws = 0)) =>
       /\ Emitted(trace', "abort") = 0
       /\ Emitted(trace', "error") = 0
       /\ UNCHANGED data]_vars

\* the control message {"type":"abort","payload":p}
AbortContent(p) == 0 - (2 + p)

\* C15: abort(reason, payload) on an open transport, unpaused and with
\* retry.onAbort unset, writes the control message once, and the write comes
\* before the transport is closed.
C15_AbortSignalWritten ==
  [][(/\ lastOp' = "abortPayload"
      /\ ws # 0 /\ sock[ws] = "open"
      /\ ~paused
      /\ ~opts.retry.onAbort) =>
       \E p \in Payloads, i \in DOMAIN trace' :
         /\ trace'[i] = Ev("write", "", AbortContent(p))
         /\ Len(Written(trace')) = 1
         /\ \A j \in DOMAIN trace' : trace'[j].k = "wsclose" => i < j]_vars

\* C16: with retry.onAbort set abort() emits neither `abort` nor `error`, and
\* when the retry count is below retry.amount and no retry timeout is pending
\* it starts a reconnection: the retry count goes up by one and one retry
\* timer is armed.
C16_AbortReconnects ==
  /\ [][(AbortTurn /\ opts.retry.onAbort) =>
          Emitted(trace', "abort") = 0 /\ Emitted(trace', "error") = 0]_vars
  /\ [][(/\ AbortTurn
         /\ opts.retry.onAbort
         /\ retries < opts.retry.amount
         /\ timers.retry # "armed") =>
          /\ retries' = retries + 1
          /\ timers'.retry = "armed"
          /\ Armed(trace', "retry") = 1]_vars

\* the events that the turn emitted, in order
Events(tr) ==
  LET w == SelectSeq(tr, LAMBDA x : x.k = "emit")
  IN [i \in DOMAIN w |-> w[i].e]

\* C17: abort() on an open transport, unpaused and with retry.onAbort unset,
\* emits exactly one event: `error` when the reason is an Error, `abort`
\* otherwise.
C17_AbortEmitsOne ==
  [][(/\ AbortTurn
      /\ ws # 0 /\ sock[ws] = "open"
      /\ ~paused
      /\ ~opts.retry.onAbort) =>
       \/ trace'[1] = Ev("call", "abort", 1) /\ Events(trace') = <<"error">>
       \/ trace'[1] = Ev("call", "abort", 0) /\ Events(trace') = <<"abort">>]_vars

\* abort(new Error(...)) closed the open transport and emitted `error`
C17_Witness ==
  /\ lastOp = "abort"
  /\ ~opts.retry.onAbort
  /\ ~paused
  /\ trace # <<>>
  /\ trace[1] = Ev("call", "abort", 1)
  /\ Count(trace, "wsclose", "") = 1
  /\ Events(trace) = <<"error">>
  /\ ws # 0 /\ sock[ws] = "closing"

\* construction failures: the address is invalid or comes from a provider
\* that can fail; retry.onAbort varies
ConnectConfigs ==
  {Config(RetryOpts(1, 0, ab, 1, 1, 1), BufferOpts(TRUE, 1, 0), TRUE, 0, pr) :
     ab \in BOOLEAN, pr \in {"invalid", "function"}}

InitConnect == \E c \in ConnectConfigs : InitWith(c, FALSE)

NextConnect ==
  \/ Connect \/ Disconnect \/ Pause \/ Resume
  \/ RetryTimeout \/ WsOpen \/ WsError \/ WsClose

SpecConnect == InitConnect /\ [][NextConnect]_vars

\* the turn ran connect() and the construction of the transport failed
ConstructionFailed(tr) == Emitted(tr, "preConnect") = 1 /\ Count(tr, "new", "") = 0

\* C18: a turn that runs connect() lets no exception escape; when the
\* construction fails, abort() is called once with an Error after `preConnect`,
\* which emits one `error` event when retry.onAbort is unset and calls
\* reconnect() otherwise, and no transport handle exists afterwards.
C18_ConnectNeverThrows ==
  [][lastOp' \in {"connect", "retryTimeout"} =>
       /\ Count(trace', "throw", "") = 0
       /\ ConstructionFailed(trace') =>
            /\ ws' = 0
            /\ Count(trace', "call", "abort") = 1
            /\ Pos(trace', "emit", "preConnect") < Pos(trace', "call", "abort")
            /\ trace'[Pos(trace', "call", "abort")].v = 1
            /\ IF opts.retry.onAbort
               THEN Emitted(trace', "error") = 0 /\ Called(trace', "reconnect") = 1
               ELSE Emitted(trace', "error") = 1 /\ Called(trace', "reconnect") = 0]_vars

\* connect() closed the open transport, failed to construct the next one and
\* emitted `error`
C18_Witness ==
  /\ lastOp = "connect"
  /\ ~opts.retry.onAbort
  /\ ConstructionFailed(trace)
  /\ Count(trace, "wsclose", "") = 1
  /\ Emitted(trace, "error") = 1
  /\ ws = 0

\* C19: no exception raised by a transport write leaves the operation that
\* triggered it: a send(), a resume(), an open event or a message event never
\* ends with an exception that nothing caught.
C19_NoExceptionEscapes ==
  [][lastOp' \in {"send", "resume", "wsOpen", "wsMessage"} =>
       Count(trace', "throw", "") = 0]_vars

\* C20: ping() called while the connection is not active (not connected, or
\* paused) or while the timeout of an earlier ping is armed emits no `ping`
\* event, writes nothing to the transport, arms no timer and leaves the
\* timers as they are.
C20_PingOnlyWhenIdle ==
  [][(lastOp' = "ping" /\ (~connected \/ paused \/ timers.ping = "armed")) =>
       /\ Emitted(trace', "ping") = 0
       /\ Written(trace') = <<>>
       /\ Armed(trace', "ping") = 0
       /\ timers' = timers]_vars

\* single pings: ping.strict and retry.onAbort vary; no keep-alive timer and
\* no heartbeat
PingConfigs ==
  {Config(RetryOpts(1, 0, ab, 1, 1, 1), BufferOpts(TRUE, 1, 0), st, 0, "static") :
     ab \in BOOLEAN, st \in BOOLEAN}

InitPing == \E c \in PingConfigs : InitWith(c, FALSE)

NextPing ==
  \/ Connect \/ Disconnect \/ Pause \/ Resume \/ Ping
  \/ PingTimeout \/ RetryTimeout \/ WsOpen \/ WsMessage \/ WsPong \/ WsClose

SpecPing == InitPing /\ [][NextPing]_vars

\* no transport is connecting or open under the handle #ws
ConnectionClosed == ws = 0 \/ sock[ws] \in {"closing", "closed"}

\* C21 as stated: when the timeout of a single ping expires, in strict mode
\* the connection is closed and exactly one `abort` event fires, in non-strict
\* mode the socket disconnects and neither `abort` nor `error` fires.
C21_PingTimeoutAborts ==
  [][lastOp' = "pingTimeout" =>
       IF opts.ping.strict
       THEN ConnectionClosed' /\ Events(trace') = <<"abort">>
       ELSE ws' = 0 /\ Emitted(trace', "abort") = 0 /\ Emitted(trace', "error") = 0]_vars

\* C21 amended: in strict mode the timeout calls abort() with the fixed
\* message, a string: the connection is closed and, with retry.onAbort unset,
\* exactly one `abort` event fires, while with retry.onAbort set reconnect()
\* is called and no event fires; in non-strict mode the socket disconnects
\* and no event fires.
C21_PingTimeoutByPolicy ==
  [][lastOp' = "pingTimeout" =>
       IF opts.ping.strict
       THEN /\ ConnectionClosed'
            /\ trace'[1] = Ev("call", "abort", 0)
            /\ IF opts.retry.onAbort
               THEN Called(trace', "reconnect") = 1 /\ Events(trace') = <<>>
               ELSE Called(trace', "reconnect") = 0 /\ Events(trace') = <<"abort">>
       ELSE ws' = 0 /\ Events(trace') = <<>> /\ Called(trace', "abort") = 0]_vars

\* a strict ping timed out on an open transport with retry.onAbort set: the
\* transport is closing, a retry timer is armed and no event was emitted
C21_Witness ==
  /\ lastOp = "pingTimeout"
  /\ opts.ping.strict /\ opts.retry.onAbort
  /\ Count(trace, "wsclose", "") = 1
  /\ ws # 0 /\ sock[ws] = "closing"
  /\ Armed(trace, "retry") = 1
  /\ Events(trace) = <<>>

\* a ping timeout is scheduled: the one in #timers.ping or one that lost its slot
PingPending == timers.ping = "armed" \/ orphans["single"] > 0 \/ orphans["beat"] > 0

\* C22: a pong message that arrives, unpaused, while a single ping is
\* outstanding or the heartbeat runs, with a ping timeout scheduled, emits
\* exactly one `pong` event and leaves no ping timeout that can still fire.
C22_AnsweredPingNeverTimesOut ==
  [][(/\ lastOp' = "wsPong"
      /\ ~paused
      /\ pingStart \/ heartBeatRunning
      /\ PingPending) =>
       Emitted(trace', "pong") = 1 /\ ~PingPending']_vars

\* heartbeat and single pings together with pause(): non-strict pings, no
\* keep-alive timer and no reconnection
BeatConfigs ==
  {Config(RetryOpts(0, 0, FALSE, 1, 1, 1), BufferOpts(TRUE, 1, 0), FALSE, 0, "static")}

InitBeat == \E c \in BeatConfigs : InitWith(c, FALSE)

NextBeat ==
  \/ Connect \/ Disconnect \/ Pause \/ Resume \/ Ping \/ StartBeat \/ StopBeat
  \/ PingTimeout \/ OrphanTimeout \/ HeartbeatTick \/ WsOpen \/ WsPong \/ WsClose

SpecBeat == InitBeat /\ [][NextBeat]_vars

\* a single ping was sent and neither answered nor timed out
SinglePingOutstanding ==
  /\ pingStart
  /\ \/ timers.ping = "armed" /\ pingKind = "single"
     \/ orphans["single"] > 0

\* C23: startBeat() called while the connection is not active, no transport
\* exists or a single ping is outstanding arms no timer, sends no ping and
\* changes nothing, the heartbeat flag included.
C23_BeatExcludesPing ==
  [][(lastOp' = "startBeat"
      /\ (~connected \/ paused \/ ws = 0 \/ SinglePingOutstanding)) =>
       UNCHANGED data /\ trace' = <<>>]_vars

\* startBeat() called on an active connection while a single ping is
\* outstanding: the heartbeat did not start
C23_Witness ==
  /\ lastOp = "startBeat"
  /\ connected /\ ~paused
  /\ ws # 0 /\ sock[ws] = "open"
  /\ SinglePingOutstanding
  /\ ~heartBeatRunning
  /\ timers.heartbeat = "none"

\* C24: every timeout that is still scheduled is the one the timer store holds
\* under its name: no timeout is scheduled that was superseded by a later
\* arming of the same name.
C24_OneTimerPerName == \A k \in DOMAIN orphans : orphans[k] = 0

\* keep-alive on and off, no reconnection and no user disconnect(): the only
\* transport that is ever replaced is the one a keep-alive expiry replaces
KeepAliveConfigs ==
  {Config(RetryOpts(0, 0, FALSE, 1, 1, 1), BufferOpts(TRUE, 1, 0), FALSE, t, "static") :
     t \in 0..1}

InitKeepAlive == \E c \in KeepAliveConfigs : InitWith(c, FALSE)

NextKeepAlive ==
  \/ ConnectFresh \/ KeepAliveTimeout \/ WsOpen \/ WsMessage \/ WsError \/ WsClose
  \/ Pause \/ Resume \/ Send

SpecKeepAlive == InitKeepAlive /\ [][NextKeepAlive]_vars

\* an open event arms the keep-alive timer once when timeout > 0, and arms
\* none when timeout = 0
OpenArmsKeepAlive ==
  lastOp' = "wsOpen" =>
    IF opts.timeout > 0
    THEN Armed(trace', "keepAlive") = 1 /\ timers'.keepAlive = "armed"
    ELSE Armed(trace', "keepAlive") = 0 /\ timers'.keepAlive = "none"

\* the expiry on an open transport closes it, then constructs a new one
ExpiryReplaces ==
  (lastOp' = "keepAliveTimeout" /\ ws # 0 /\ sock[ws] = "open") =>
    /\ Count(trace', "wsclose", "") = 1 /\ sock'[ws] = "closing"
    /\ Emitted(trace', "preConnect") = 1
    /\ Count(trace', "new", "") = 1
    /\ Pos(trace', "wsclose", "") < Pos(trace', "emit", "preConnect")
    /\ ws' # ws /\ sock'[ws'] = "connecting"

\* C25: an open event arms exactly one keep-alive timer when timeout > 0 and
\* none when timeout = 0; its expiry runs disconnect() and then connect(), and
\* the close event of the transport it replaced emits exactly one `close`.
C25_KeepAliveCycle ==
  [][/\ OpenArmsKeepAlive
     /\ ExpiryReplaces
     /\ lastOp' = "staleClose" => Emitted(trace', "close") = 1]_vars

\* the user reads the uptime getter
Uptime == task = 0 /\ Turn("uptime", uptime(Cur), 0)

\* the clock, pause and resume, connections replaced by connect(): no
\* reconnection, no keep-alive
ClockConfigs ==
  {Config(RetryOpts(0, 0, FALSE, 1, 1, 1), BufferOpts(TRUE, 1, 0), FALSE, 0, "static")}

InitClock == \E c \in ClockConfigs : InitWith(c, FALSE)

NextClock ==
  \/ Connect \/ Disconnect \/ Pause \/ Resume \/ Uptime \/ WsOpen \/ WsClose \/ Tick

SpecClock == InitClock /\ [][NextClock]_vars

\* no transport, or one that is not open yet or whose close event was delivered
Disconnected == ws = 0 \/ sock[ws] \in {"none", "connecting", "closed"}

\* C26: the value the uptime getter returns does not advance while the
\* socket is paused or disconnected, and resume() continues from the value
\* held before the pause.
C26_UptimeStandsStill ==
  [][/\ (lastOp' = "tick" /\ (paused \/ Disconnected)) => UptimeNow' = UptimeNow
     /\ (lastOp' = "resume" /\ paused) => UptimeNow' = UptimeNow]_vars

\* disconnect() called by the user on an existing transport, outside a
\* reconnect cycle: cleanup() takes its manual branch
ManualCleanup == lastOp' = "disconnect" /\ ws # 0 /\ ~retryCall

\* C27 as stated: the accumulated uptime is reset to zero by the cleanup of a
\* manual disconnect, and no other operation lowers it.
C27_ResetByManualDisconnect ==
  [][IF ManualCleanup THEN upTime' = 0 ELSE upTime' >= upTime]_vars

\* C27 amended: no operation resets the accumulated uptime; the cleanup of a
\* manual disconnect leaves it as it was, and every other operation leaves it
\* or adds the time elapsed on the active connection.
C27_UptimeNeverReset ==
  [][/\ upTime' >= upTime
     /\ ManualCleanup => upTime' = upTime]_vars

\* a manual disconnect cleaned up (retry count back to 0 after a reconnect
\* cycle) and the uptime accumulated before it is still there
C27_Witness ==
  /\ lastOp = "disconnect"
  /\ Count(trace, "wsclose", "") = 1
  /\ ws = 0 /\ ~retryCall
  /\ retries = 0
  /\ upTime > 0

\* onOpen(callback), onClose(callback), onError(callback): the field holds a
\* new wrapper around the callback; no transport is touched
onOpen(s, h) == [s EXCEPT !.handlers["open"] = h]
onClose(s, h) == [s EXCEPT !.handlers["close"] = h]
onError(s, h) == [s EXCEPT !.handlers["error"] = h]
\* onData(callback) also stores the callback in #dataCallback; the queue its
\* wrapper captures is never used with buffer: false
onData(s, h) == [s EXCEPT !.handlers["data"] = h]

OnOpen == task = 0 /\ \E h \in Callbacks : Turn("onOpen", onOpen(Cur, h), 0)
OnClose == task = 0 /\ \E h \in Callbacks : Turn("onClose", onClose(Cur, h), 0)
OnError == task = 0 /\ \E h \in Callbacks : Turn("onError", onError(Cur, h), 0)
OnData == task = 0 /\ ~bufferOn /\ \E h \in Callbacks : Turn("onData", onData(Cur, h), 0)

\* handler registration before and after connect(), with buffer: false and
\* no reconnection
HandlerConfigs ==
  {Config(RetryOpts(0, 0, FALSE, 1, 1, 1), BufferOpts(FALSE, 0, 0), FALSE, 0, "static")}

InitHandlers == \E c \in HandlerConfigs : InitWith(c, FALSE)

NextHandlers ==
  \/ Connect \/ OnOpen \/ OnClose \/ OnData \/ OnError
  \/ WsOpen \/ WsMessage \/ WsError \/ WsClose

SpecHandlers == InitHandlers /\ [][NextHandlers]_vars

\* the callbacks that the turn invoked for phase p
Handled(tr, p) == {tr[i].v : i \in {j \in DOMAIN tr : tr[j].k = "handle" /\ tr[j].e = p}}

\* C28: an event of the current transport invokes, for its phase, the
\* callback that the last onOpen, onClose, onData or onError call set, also
\* when that call came after the transport was connected.
C28_LastHandlerWins ==
  [][lastOp' \in {"wsOpen", "wsMessage", "wsError", "wsClose"} =>
       \A p \in Phases : Handled(trace', p) \subseteq {handlers[p]}]_vars

\* buffer: false; the limits are those of the default buffer object, which
\* the configuration no longer holds
NoBufferConfigs ==
  {Config(RetryOpts(0, 0, FALSE, 1, 1, 1), BufferOpts(FALSE, MaxBuf, 0), FALSE, 0, "static")}

InitNoBuffer == \E c \in NoBufferConfigs : InitWith(c, FALSE)

NextNoBuffer ==
  \/ Connect \/ Disconnect \/ Pause \/ Resume \/ Send \/ OnData
  \/ WsOpen \/ WsMessage \/ WsClose

SpecNoBuffer == InitNoBuffer /\ [][NextNoBuffer]_vars

\* C29: with buffer: false both queues are always empty, a payload sent or a
\* message received while the socket is paused or not open is dropped, and
\* resume() and the open event write and deliver nothing.
C29_NothingQueued ==
  [][/\ inBuffer' = <<>> /\ capBuffer' = <<>> /\ outBuffer' = <<>>
     /\ (lastOp' = "send" /\ NotSendable) =>
          Count(trace', "drop", "out") = 1 /\ Written(trace') = <<>>
     /\ (lastOp' = "wsMessage" /\ paused) =>
          Count(trace', "drop", "in") = 1 /\ Delivered(trace') = <<>>
     /\ lastOp' \in {"resume", "wsOpen"} =>
          Written(trace') = <<>> /\ Delivered(trace') = <<>>]_vars

\* a payload sent on an open transport while paused was dropped
C29_Witness ==
  /\ lastOp = "send"
  /\ ~opts.buffer.on
  /\ paused /\ ws # 0 /\ sock[ws] = "open"
  /\ Count(trace, "drop", "out") = 1
  /\ outBuffer = <<>>

\* send(data, parser) with either encoder
SendWith ==
  task = 0 /\ \E d \in Payloads, e \in Encoders : Turn("send", send(Cur, d, e), 0)

\* encoders that can fail: every non-empty queue is flushed (buffer.min 0), no
\* reconnection
EncodeConfigs ==
  {Config(RetryOpts(0, 0, FALSE, 1, 1, 1), BufferOpts(TRUE, 1, 0), FALSE, 0, "static")}

InitEncode == \E c \in EncodeConfigs : InitWith(c, FALSE)

NextEncode ==
  \/ Connect \/ Pause \/ Resume \/ SendWith \/ WsOpen \/ WsClose

SpecEncode == InitEncode /\ [][NextEncode]_vars

\* the payload on which the encoder threw in the turn
Failed(tr) == tr[Pos(tr, "fail", "")].v

\* C30: after a send() in which the encoding of a payload failed, in the flush
\* of the queued items or for the payload of the call, that payload is not in
\* the outbound queue, so that no later flush writes it.
C30_FailingPayloadDiscarded ==
  [][(lastOp' = "send" /\ Count(trace', "fail", "") = 1) =>
       \A i \in DOMAIN outBuffer' : outBuffer'[i] # Failed(trace')]_vars

\* C31: the expiry of a heartbeat ping's timeout closes the transport,
\* constructs a new one and restarts the heartbeat: afterwards a heartbeat
\* interval is armed again.
C31_BeatTimeoutRestarts ==
  [][(lastOp' = "beatPingTimeout" /\ ws # 0) =>
       /\ Count(trace', "wsclose", "") = 1
       /\ Count(trace', "new", "") = 1
       /\ timers'.heartbeat = "armed"]_vars

\* pause() with every timer in play: keep-alive on, one retry, the heartbeat
\* and its ping timeout, a queue of one
PauseConfigs ==
  {Config(RetryOpts(1, 0, FALSE, 1, 1, 1), BufferOpts(TRUE, 1, 0), FALSE, 1, "static")}

InitPause == \E c \in PauseConfigs : InitWith(c, FALSE)

NextPause ==
  \/ Connect \/ Pause \/ Resume \/ Send \/ StartBeat \/ Reconnect
  \/ RetryTimeout \/ KeepAliveTimeout \/ PingTimeout \/ OrphanTimeout
  \/ WsOpen \/ WsMessage \/ WsClose

SpecPause == InitPause /\ [][NextPause]_vars

OrderConfigs ==
  {Config(RetryOpts(0, 0, FALSE, 1, 1, 1), BufferOpts(TRUE, MaxBuf, mn), FALSE, 0, "static") :
     mn \in {0, MaxBuf}}

InitOrder == \E c \in OrderConfigs : InitWith(c, FALSE)

NextOrder ==
  \/ Connect \/ Pause \/ Resume \/ SendWith \/ WsOpen \/ WsClose

SpecOrder == InitOrder /\ [][NextOrder]_vars

\* a send() that goes to the transport and in which no encoding fails
SendSucceeds == DirectSend /\ Count(trace', "fail", "") = 0

\* C33 as stated: a send() that writes to the transport first writes every
\* queued payload, in enqueue order, and leaves no earlier payload waiting.
C33_SendOrder ==
  [][SendSucceeds =>
       /\ SubSeq(Written(trace'), 1, Len(outBuffer)) = outBuffer
       /\ Len(Written(trace')) = Len(outBuffer) + 1
       /\ outBuffer' = <<>>]_vars

\* C33 amended: a send() that writes to the transport first writes every
\* queued payload in enqueue order when the queue has reached buffer.min; with
\* a shorter queue it writes only its own payload and the queued payloads
\* keep waiting.
C33_SendOrderAboveThreshold ==
  [][SendSucceeds =>
       IF Len(outBuffer) >= opts.buffer.min
       THEN /\ SubSeq(Written(trace'), 1, Len(outBuffer)) = outBuffer
            /\ Len(Written(trace')) = Len(outBuffer) + 1
            /\ outBuffer' = <<>>
       ELSE /\ Len(Written(trace')) = 1
            /\ outBuffer' = outBuffer]_vars

\* a payload was written while an earlier one waits below the threshold
C33_Witness ==
  /\ lastOp = "send"
  /\ Count(trace, "fail", "") = 0
  /\ ws # 0 /\ sock[ws] = "open" /\ ~paused
  /\ Len(Written(trace)) = 1
  /\ outBuffer # <<>>
  /\ Len(outBuffer) < opts.buffer.min

\* C34: with buffer.min = 0 a message accepted while paused joins the inbound
\* queue, and the next resume() delivers the queue in arrival order, each
\* message once, and empties it.
C34_PausedMessagesDelivered ==
  [][/\ (lastOp' = "wsMessage" /\ paused /\ Count(trace', "push", "in") = 1) =>
          /\ Len(inBuffer') = Len(inBuffer) + 1
          /\ SubSeq(inBuffer', 1, Len(inBuffer)) = inBuffer
          /\ trace'[1].v = inBuffer'[Len(inBuffer')]
     /\ (lastOp' = "resume" /\ paused /\ opts.buffer.min = 0) =>
          /\ Delivered(trace') = inBuffer
          /\ inBuffer' = <<>>]_vars

\* C35: resume() of a paused socket whose transport exists but is not open
\* hands nothing to the transport and keeps the outbound queue.
C35_FlushOnlyWhenOpen ==
  [][(lastOp' = "resume" /\ paused /\ ws # 0 /\ sock[ws] # "open") =>
       /\ Written(trace') = <<>>
       /\ Count(trace', "discard", "") = 0
       /\ Count(trace', "throw", "") = 0
       /\ outBuffer' = outBuffer]_vars

\* a user who passes its own encoder with each kind of payload: the default
\* with payload 1, a custom one that never throws with payload 2
EncoderOf(d) == IF d = 1 THEN "stringify" ELSE "toString"

SendOwn ==
  task = 0 /\ \E d \in Payloads : Turn("send", send(Cur, d, EncoderOf(d)), 0)

OwnEncoderConfigs ==
  {Config(RetryOpts(0, 0, FALSE, 1, 1, 1), BufferOpts(TRUE, MaxBuf, 0), FALSE, 0, "static")}

InitOwnEncoder == \E c \in OwnEncoderConfigs : InitWith(c, FALSE)

NextOwnEncoder ==
  \/ Connect \/ Pause \/ Resume \/ SendOwn \/ WsOpen \/ WsClose

SpecOwnEncoder == InitOwnEncoder /\ [][NextOwnEncoder]_vars

\* C36: every payload handed to the transport was encoded with the encoder
\* that was passed to send() together with it, also in a flush of the queue.
C36_OwnEncoder ==
  [][\A i \in DOMAIN trace' :
       trace'[i].k = "encode" => trace'[i].e = EncoderOf(trace'[i].v)]_vars

\* C37: the turn that follows a user's disconnect(), unless it is a connect()
\* or reconnect() call, makes no connection attempt: it emits no `preConnect`
\* and no `reconnect` and constructs no transport.
C37_DisconnectStops ==
  [][(lastOp = "disconnect" /\ lastOp' \notin {"connect", "reconnect"}) =>
       /\ Emitted(trace', "preConnect") = 0
       /\ Emitted(trace', "reconnect") = 0
       /\ Count(trace', "new", "") = 0]_vars

\* C38: reconnect() called with no retry timer pending (none armed, or the
\* last one has fired) and the retry count below retry.amount arms a timer.
C38_FiredTimerNotPending ==
  [][(lastOp' = "reconnect" /\ timers.retry # "armed"
      /\ retries < opts.retry.amount) =>
       /\ Armed(trace', "retry") = 1
       /\ timers'.retry = "armed"]_vars

\* the beating getter
beating == heartBeatRunning

\* C39: beating is true exactly when a heartbeat interval is armed.
C39_BeatingIffArmed == beating <=> timers.heartbeat = "armed"

\* the timeout of a single ping is still to expire
SinglePingArmed == (timers.ping = "armed" /\ pingKind = "single") \/ orphans["single"] > 0

\* C40: a single ping is outstanding only while its timeout timer is armed.
C40_OutstandingOnlyWhileArmed == pingStart => SinglePingArmed

====
